---- MODULE Spec2Model ----
(***************************************************************************)
(* A model of fftool.py, a command-line client of a FlashForge printer.    *)
(* One behaviour is one invocation of the tool: Init chooses the           *)
(* sub-command and its arguments, the actions are the I/O steps of the     *)
(* chosen function, and the printer is the environment that feeds the      *)
(* socket's receive side.  All data on the socket are bytes (0..255).      *)
(***************************************************************************)
EXTENDS Integers, Sequences, FiniteSets, TLC

(* ------------------------------ bounds -------------------------------- *)

\* The printer sends at most this many segments in one run.
MaxPeerSends == 6

\* sendcmd's reply list is followed up to this length (the loop is unbounded).
MaxReply == 3

\* The largest file-list count a header of the printer declares.
MaxFiles == 2

(* --------------------------- bytes and text --------------------------- *)

\* The printable ASCII characters in code order, 32..126 (code 96, which a
\* TLA+ string cannot hold, is left empty).
Printable ==
    << " ", "!", "\"", "#", "$", "%", "&", "'", "(", ")", "*", "+", ",", "-",
       ".", "/", "0", "1", "2", "3", "4", "5", "6", "7", "8", "9", ":", ";",
       "<", "=", ">", "?", "@", "A", "B", "C", "D", "E", "F", "G", "H", "I",
       "J", "K", "L", "M", "N", "O", "P", "Q", "R", "S", "T", "U", "V", "W",
       "X", "Y", "Z", "[", "\\", "]", "^", "_", "", "a", "b", "c", "d", "e",
       "f", "g", "h", "i", "j", "k", "l", "m", "n", "o", "p", "q", "r", "s",
       "t", "u", "v", "w", "x", "y", "z", "{", "|", "}", "~" >>

\* ord(c) of a printable character.
Ord(c) == 31 + (CHOOSE i \in 1..Len(Printable) : Printable[i] = c)

\* bytes(s, 'ascii') of a text written as a tuple of characters.
Ascii(s) == [i \in 1..Len(s) |-> Ord(s[i])]

CR == 13
LF == 10
CRLF == <<CR, LF>>

\* '%d' % n for n >= 0, as bytes.
RECURSIVE Dec(_)
Dec(n) ==
    IF n < 10 THEN <<48 + n>> ELSE Dec(n \div 10) \o <<48 + (n % 10)>>

\* str(b, 'ascii') succeeds exactly on 7-bit data.
IsAscii(b) == \A i \in 1..Len(b) : b[i] < 128

\* The characters str.strip() removes from an ASCII text.
IsSpace(c) == c \in (9..13) \cup (28..32)

\* Strip that removes trailing whitespace only (str.rstrip()).
Strip_Right(t) ==
    LET keep == {i \in 1..Len(t) : ~IsSpace(t[i])}
    IN  IF keep = {} THEN <<>>
        ELSE SubSeq(t, 1, CHOOSE i \in keep : \A j \in keep : j <= i)

\* str.strip(): leading and trailing whitespace removed.
Strip(t) ==
    LET keep == {i \in 1..Len(t) : ~IsSpace(t[i])}
    IN  IF keep = {} THEN <<>>
        ELSE LET lo == CHOOSE i \in keep : \A j \in keep : i <= j
                 hi == CHOOSE i \in keep : \A j \in keep : j <= i
             IN  SubSeq(t, lo, hi)

\* t[at:].startswith(p), at counted from 1.
HasAt(t, at, p) ==
    /\ at + Len(p) - 1 <= Len(t)
    /\ \A i \in 1..Len(p) : t[at + i - 1] = p[i]

StartsWith(t, p) == HasAt(t, 1, p)

\* [0-9A-Z]
IsTokenChar(c) == c \in (48..57) \cup (65..90)

TxtCMD == Ascii(<<"C", "M", "D", " ">>)
TxtReceived == Ascii(<<" ", "R", "e", "c", "e", "i", "v", "e", "d">>)

\* cmdackre.match(t) is not None, for the pattern r'CMD [0-9A-Z]+ Received.':
\* anchored at the start only; the final '.' is any character but "\n".
\* The token is the longest run of [0-9A-Z] (the character after it has to
\* be a blank, so no shorter run can match).
cmdackre(t) ==
    /\ StartsWith(t, TxtCMD)
    /\ \E e \in 5..Len(t) :
        /\ \A i \in 5..e : IsTokenChar(t[i])
        /\ HasAt(t, e + 1, TxtReceived)
        /\ e + Len(TxtReceived) + 1 <= Len(t)
        /\ t[e + Len(TxtReceived) + 1] # LF


(* ------------------------- program constants -------------------------- *)

\* BLOCKSIZE of send.
BLOCKSIZE == 1024

\* The longest basename send accepts.
MAXNAME == 36

\* Progress is printed when bcount % PROGRESSEVERY = 0.
PROGRESSEVERY == 10

\* The commands, as the byte strings the functions pass to sendcmd.
M119 == Ascii(<<"~", "M", "1", "1", "9">>) \o CRLF
M27 == Ascii(<<"~", "M", "2", "7">>) \o CRLF
M25 == Ascii(<<"~", "M", "2", "5">>) \o CRLF
M24 == Ascii(<<"~", "M", "2", "4">>) \o CRLF
M661 == Ascii(<<"~", "M", "6", "6", "1">>) \o CRLF
M29 == Ascii(<<"~", "M", "2", "9">>) \o CRLF

TxtM662 == Ascii(<<"~", "M", "6", "6", "2", " ">>)
TxtM28 == Ascii(<<"~", "M", "2", "8", " ">>)
TxtM23 == Ascii(<<"~", "M", "2", "3", " ", "0", ":">>)
TxtDrive == Ascii(<<" ", "0", ":", "/", "u", "s", "e", "r", "/">>)
TxtUser == Ascii(<<"/", "u", "s", "e", "r", "/">>)
TxtOk == Ascii(<<"o", "k">>)
TxtFinished == Ascii(<<"F", "i", "n", "i", "s", "h", "e", "d", " ", "t", "r", "a", "n", "s", "f", "e", "r">>)
Slash == 47

\* b'~M662 %s\r\n' % bytes(args.image, 'ascii')
M662(image) == TxtM662 \o image \o CRLF

\* bytes('~M28 %d 0:/user/%s\r\n' % (flen, fname), 'ascii')
M28(flen, fname) == TxtM28 \o Dec(flen) \o TxtDrive \o fname \o CRLF

\* b'~M23 0:%s\r\n' % bytes(fname, 'ascii')
M23(fname) == TxtM23 \o fname \o CRLF

\* The magic tags of the binary blocks.
MagicList == <<68, 170, 170, 68>>
MagicEntry == <<58, 58, 163, 163>>
MagicImage == <<42, 42, 162, 162>>

\* The second field of struct.unpack('>4sI', hdr): big-endian, unsigned.
BE32(b) == ((b[1] * 256 + b[2]) * 256 + b[3]) * 256 + b[4]

\* struct.pack('>I', n), the printer's side of BE32.
PackBE32(n) ==
    << (n \div 16777216) % 256, (n \div 65536) % 256, (n \div 256) % 256, n % 256 >>

\* os.path.basename(p): what follows the last '/'.
Basename(p) ==
    LET cuts == {i \in 1..Len(p) : p[i] = Slash}
    IN  IF cuts = {} THEN p
        ELSE SubSeq(p, (CHOOSE i \in cuts : \A j \in cuts : j <= i) + 1, Len(p))

\* NameOk with the limit off by one.
NameOk_Strict(fname) == Len(fname) < MAXNAME

\* The assert of send on the basename.
NameOk(fname) == Len(fname) <= MAXNAME

\* PrintPath that rewrites every path.
PrintPath_Always(fname) == TxtUser \o fname

\* doprintfile's rewrite of the device path.
PrintPath(fname) ==
    IF ~StartsWith(fname, <<Slash>>) THEN TxtUser \o fname ELSE fname

\* Byte i (from 1) of the local file: a fixed pattern that tells positions
\* and chunks apart.
FileByte(i) == (i * 7 + 3) % 251

\* FileRead that fills a short last chunk up to n bytes.
FileRead_Padded(flen, pos, n) ==
    IF pos >= flen THEN <<>>
    ELSE [i \in 1..n |-> IF pos + i <= flen THEN FileByte(pos + i) ELSE 0]

\* args.file.read(n) at offset pos of a file of flen bytes.
FileRead(flen, pos, n) ==
    LET k == IF flen - pos < n THEN flen - pos ELSE n
    IN  [i \in 1..k |-> FileByte(pos + i)]

\* The value '%.1f' % (sent / flen * 100.0) shows, in tenths of a percent.
Percent10(s, flen) == (2000 * s + flen) \div (2 * flen)


(* ------------------------------- state -------------------------------- *)

VARIABLES
    fsize,   \* the bytes the file given to send holds now
    pc,      \* where the program is: "main", a label of a function, "done", "fail"
    op,      \* the sub-command main dispatches to (args.func)
    args,    \* the parsed arguments: file, image, print, and the file's length
    inbuf,   \* bytes the printer has sent and the client has not read yet
    eof,     \* the printer has closed the connection
    sends,   \* the number of segments the printer has sent
    log,     \* the client's calls on the socket file and the clock, in order
    cmd,     \* sendcmd's parameter cmd
    ret,     \* where sendcmd returns to
    reply,   \* sendcmd's list reply
    out,     \* what the program has printed, in order
    err,     \* the exception that ended the program, if one has
    nfiles,  \* listfiles: the count of the header
    idx,     \* listfiles: the iterations of the loop completed
    blen,    \* fnamelen of listfiles, imglen of getimage
    bcount,  \* send: bcount
    sent,    \* send: sent
    fpos,    \* send: the read position of args.file
    image    \* getimage: the data written to the temporary file

vars ==
    << fsize, pc, op, args, inbuf, eof, sends, log, cmd, ret, reply, out, err,
       nfiles, idx, blen, bcount, sent, fpos, image >>

TextOps == {"status", "progress", "pause", "resume"}
Ops == TextOps \cup {"listfiles", "getimage", "send", "print"}

\* One call on the socket file (write, flush, readline, read) or time.sleep,
\* made at position at of the program; n is the size asked of read, data
\* the bytes moved.
Ev(at, e, n, d) == [at |-> at, ev |-> e, n |-> n, data |-> d]

\* One line of output: a reply line, a filename, a progress figure, a text.
Out(k, v) == [k |-> k, v |-> v]

NoErr == [type |-> "none", info |-> <<>>]
Raise(t, info) == [type |-> t, info |-> info]

(* ------------------------------- inputs ------------------------------- *)

NameOfLen(n) == [i \in 1..n |-> Ord("a")]

ShortPath == Ascii(<<"d", "/", "b", ".", "g">>)

\* The local paths given to send.
LocalPaths ==
    { ShortPath,
      NameOfLen(MAXNAME),
      Ascii(<<"d", "/">>) \o NameOfLen(MAXNAME),
      NameOfLen(MAXNAME + 1) }

\* The lengths of the files given to send.
FileLens ==
    {0, 1, BLOCKSIZE, BLOCKSIZE + 1, (PROGRESSEVERY - 1) * BLOCKSIZE + 1}

\* The (path, length, --print) combinations of send.
SendInputs ==
    {[file |-> f, flen |-> 1, print |-> FALSE, image |-> <<>>] : f \in LocalPaths}
    \cup {[file |-> ShortPath, flen |-> n, print |-> FALSE, image |-> <<>>] :
             n \in FileLens}
    \cup {[file |-> ShortPath, flen |-> BLOCKSIZE + 1, print |-> TRUE, image |-> <<>>]}

\* The device paths given to print.
DevicePaths ==
    { Ascii(<<"a", ".", "g">>), Ascii(<<"/", "d", "a", "t", "a", "/", "a", ".", "g">>),
      Ascii(<<"u", "s", "e", "r", "/", "a", ".", "g">>), <<Slash>>, <<>> }

NoArgs == [file |-> <<>>, flen |-> 0, print |-> FALSE, image |-> <<>>]

ArgsOf(o) ==
    CASE o = "send" -> SendInputs
      [] o = "print" -> {[NoArgs EXCEPT !.file = f] : f \in DevicePaths}
      [] o = "getimage" -> {[NoArgs EXCEPT !.image = Ascii(<<"a", ".", "g">>)]}
      [] OTHER -> {NoArgs}

Init ==
    /\ op \in Ops
    /\ args \in ArgsOf(op)
    /\ fsize = args.flen
    /\ pc = "main"
    /\ inbuf = <<>>
    /\ eof = FALSE
    /\ sends = 0
    /\ log = <<>>
    /\ cmd = <<>>
    /\ ret = "none"
    /\ reply = <<>>
    /\ out = <<>>
    /\ err = NoErr
    /\ nfiles = 0
    /\ idx = 0
    /\ blen = 0
    /\ bcount = 0
    /\ sent = 0
    /\ fpos = 0
    /\ image = <<>>

(* ----------------------------- the printer ---------------------------- *)

AckGood ==
    TxtCMD \o Ascii(<<"M", "1", "1", "9">>) \o TxtReceived \o Ascii(<<".">>) \o CRLF

\* What the printer may send while the client waits for the acknowledgement.
AckItems ==
    { AckGood,
      TxtCMD \o Ascii(<<"M", "1", "1", "9">>) \o TxtReceived \o CRLF,
      TxtCMD \o Ascii(<<"M", "1", "1", "9">>) \o TxtReceived \o Ascii(<<".", " ", "n", "o">>) \o CRLF,
      TxtCMD \o Ascii(<<"M", "1", "1", "9">>) \o TxtReceived \o <<LF>>,
      TxtCMD \o Ascii(<<"m", "1", "1", "9">>) \o TxtReceived \o Ascii(<<".">>) \o CRLF,
      Ascii(<<"E", "r", "r", "o", "r">>) \o CRLF,
      Ascii(<<"C", "M", "D">>),
      <<200, LF>> }

\* What the printer may send while the client collects the reply lines.
LineItems ==
    { TxtOk \o CRLF,
      Ascii(<<" ">>) \o TxtOk \o CRLF,
      Ascii(<<"a">>) \o CRLF,
      Ascii(<<" ", "b">>) \o CRLF }

\* What the printer may send while the client waits for a block header.
HeaderItems ==
    {MagicList \o PackBE32(n) : n \in 0..MaxFiles}
    \cup {MagicEntry \o PackBE32(n) : n \in 0..2}
    \cup {MagicImage \o PackBE32(n) : n \in {0, 2}}
    \cup {MagicEntry \o PackBE32(Len(p)) \o p : p \in {<<97>>, <<98, 99>>}}
    \cup {MagicList}

\* What the printer may send while the client waits for a payload.
PayloadItems == {<<97>>, <<98, 99>>, <<200>>}

\* The readline or read the client is at can not return yet.
Waiting ==
    /\ ~eof
    /\ CASE pc \in {"sc_ack", "sc_loop"} -> \A i \in 1..Len(inbuf) : inbuf[i] # LF
         [] pc \in {"lf_hdr", "lf_ehdr", "gi_hdr"} -> Len(inbuf) < 8
         [] pc \in {"lf_name", "gi_data"} -> Len(inbuf) < blen
         [] OTHER -> FALSE

PeerItems ==
    CASE pc = "sc_ack" -> AckItems
      [] pc = "sc_loop" -> LineItems
      [] pc \in {"lf_hdr", "lf_ehdr", "gi_hdr"} -> HeaderItems
      [] OTHER -> PayloadItems

\* The printer sends one segment.
PeerSend ==
    /\ Waiting
    /\ sends < MaxPeerSends
    /\ \E item \in PeerItems : inbuf' = inbuf \o item
    /\ sends' = sends + 1
    /\ UNCHANGED << fsize, pc, op, args, eof, log, cmd, ret, reply, out, err,
                    nfiles, idx, blen, bcount, sent, fpos, image >>

\* The printer closes the connection.
PeerClose ==
    /\ Waiting
    /\ eof' = TRUE
    /\ UNCHANGED << fsize, pc, op, args, inbuf, sends, log, cmd, ret, reply, out, err,
                    nfiles, idx, blen, bcount, sent, fpos, image >>


(* ------------------------- the socket's file -------------------------- *)

Min(a, b) == IF a < b THEN a ELSE b

\* s.readline() returns: a whole line is buffered, or the stream has ended.
CanReadLine == eof \/ \E i \in 1..Len(inbuf) : inbuf[i] = LF

\* What s.readline() returns: through the first "\n", or what is left.
NextLine ==
    LET ends == {i \in 1..Len(inbuf) : inbuf[i] = LF}
    IN  IF ends = {} THEN inbuf
        ELSE SubSeq(inbuf, 1, CHOOSE i \in ends : \A j \in ends : i <= j)

\* s.read(n) returns: n bytes are buffered, or the stream has ended.
CanRead(n) == eof \/ Len(inbuf) >= n

\* What s.read(n) returns: n bytes, or fewer at the end of the stream.
NextBytes(n) == SubSeq(inbuf, 1, Min(n, Len(inbuf)))

\* The buffer after k bytes were taken from it.
Drop(k) == SubSeq(inbuf, k + 1, Len(inbuf))

(* ------------------------------ sendcmd ------------------------------- *)

\* The program raises e and ends.
Fail(e) == pc' = "fail" /\ err' = e

\* A function calls sendcmd(s, c) and goes on at r with its result.
Call(c, r) == pc' = "sendcmd" /\ cmd' = c /\ ret' = r

\* The test that ends sendcmd's loop.
IsTerminator(line) == line = TxtOk

\* ReplyAfter with the append ahead of the test of the terminator.
ReplyAfter_AppendFirst(rep, line) == Append(rep, line)

\* The list after one more line was read: reply.append(line), unless the
\* line ends the loop.
ReplyAfter(rep, line) == IF IsTerminator(line) THEN rep ELSE Append(rep, line)

\* sendcmd: s.write(cmd); s.flush()
SendcmdWrite ==
    /\ pc = "sendcmd"
    /\ log' = log \o << Ev(pc, "write", Len(cmd), cmd),
                        Ev(pc, "flush", 0, <<>>) >>
    /\ pc' = "sc_ack"
    /\ UNCHANGED << fsize, op, args, inbuf, eof, sends, cmd, ret, reply, out, err,
                    nfiles, idx, blen, bcount, sent, fpos, image >>

\* SendcmdAck with the command written again after a reply that is no
\* acknowledgement.
SendcmdAck_Retry ==
    /\ pc = "sc_ack"
    /\ CanReadLine
    /\ LET data == NextLine
       IN  /\ log' = Append(log, Ev(pc, "readline", 0, data))
           /\ inbuf' = Drop(Len(data))
           /\ IF ~IsAscii(data)
              THEN Fail(Raise("UnicodeDecodeError", <<data>>)) /\ UNCHANGED reply
              ELSE IF ~cmdackre(data)
              THEN pc' = "sendcmd" /\ UNCHANGED << reply, err >>
              ELSE pc' = "sc_loop" /\ reply' = <<>> /\ UNCHANGED err
    /\ UNCHANGED << fsize, op, args, eof, sends, cmd, ret, out,
                    nfiles, idx, blen, bcount, sent, fpos, image >>

\* sendcmd: the acknowledgement is read and matched against cmdackre.
SendcmdAck ==
    /\ pc = "sc_ack"
    /\ CanReadLine
    /\ LET data == NextLine
       IN  /\ log' = Append(log, Ev(pc, "readline", 0, data))
           /\ inbuf' = Drop(Len(data))
           /\ IF ~IsAscii(data)
              THEN Fail(Raise("UnicodeDecodeError", <<data>>)) /\ UNCHANGED reply
              ELSE IF ~cmdackre(data)
              THEN Fail(Raise("Exception", <<cmd, data>>)) /\ UNCHANGED reply
              ELSE pc' = "sc_loop" /\ reply' = <<>> /\ UNCHANGED err
    /\ UNCHANGED << fsize, op, args, eof, sends, cmd, ret, out,
                    nfiles, idx, blen, bcount, sent, fpos, image >>

\* sendcmd: one turn of the while loop, and the return when it breaks.
SendcmdLine ==
    /\ pc = "sc_loop"
    /\ CanReadLine
    /\ LET data == NextLine
           line == Strip(data)
       IN  /\ IsAscii(data) /\ ~IsTerminator(line) => Len(reply) < MaxReply
           /\ log' = Append(log, Ev(pc, "readline", 0, data))
           /\ inbuf' = Drop(Len(data))
           /\ IF ~IsAscii(data)
              THEN Fail(Raise("UnicodeDecodeError", <<data>>)) /\ UNCHANGED reply
              ELSE /\ reply' = ReplyAfter(reply, line)
                   /\ pc' = IF IsTerminator(line) THEN ret ELSE pc
                   /\ UNCHANGED err
    /\ UNCHANGED << fsize, op, args, eof, sends, cmd, ret, out,
                    nfiles, idx, blen, bcount, sent, fpos, image >>

(* ----------------- status, progress, pause, resume, print ------------- *)

\* list(map(print, reply))
Printed(rep) == [i \in 1..Len(rep) |-> Out("line", rep[i])]

Enter(o, c, r) ==
    /\ pc = "main"
    /\ op = o
    /\ Call(c, r)
    /\ UNCHANGED << fsize, op, args, inbuf, eof, sends, log, reply, out, err,
                    nfiles, idx, blen, bcount, sent, fpos, image >>

Status == Enter("status", M119, "show")

Progress == Enter("progress", M27, "show")

Pause == Enter("pause", M25, "show")

Resume == Enter("resume", M24, "show")

\* doprintfile(s, fname), up to its call of sendcmd.
DoPrintFile(fname, r) == Call(M23(PrintPath(fname)), r)

PrintFile ==
    /\ pc = "main"
    /\ op = "print"
    /\ DoPrintFile(args.file, "show")
    /\ UNCHANGED << fsize, op, args, inbuf, eof, sends, log, reply, out, err,
                    nfiles, idx, blen, bcount, sent, fpos, image >>

\* The reply of the command is printed; the function returns.
ShowReply ==
    /\ pc = "show"
    /\ out' = out \o Printed(reply)
    /\ pc' = "done"
    /\ UNCHANGED << fsize, op, args, inbuf, eof, sends, log, cmd, ret, reply, err,
                    nfiles, idx, blen, bcount, sent, fpos, image >>


(* ----------------------- listfiles and getimage ----------------------- *)

\* struct.unpack('>4sI', hdr) raises struct.error unless hdr has 8 bytes.
Unpacks(hdr) == Len(hdr) = 8

HdrMagic(hdr) == SubSeq(hdr, 1, 4)

HdrCount(hdr) == BE32(SubSeq(hdr, 5, 8))

\* MagicOk with the assert compiled out.
MagicOk_Unchecked(hdr, magic) == TRUE

\* The assert on the magic tag of a header.
MagicOk(hdr, magic) == HdrMagic(hdr) = magic

\* listfiles with the command written and its text reply left unread.
ListFiles_NoReply ==
    /\ pc = "main"
    /\ op = "listfiles"
    /\ log' = log \o << Ev("sendcmd", "write", Len(M661), M661),
                        Ev("sendcmd", "flush", 0, <<>>) >>
    /\ pc' = "lf_hdr"
    /\ UNCHANGED << fsize, op, args, inbuf, eof, sends, cmd, ret, reply, out, err,
                    nfiles, idx, blen, bcount, sent, fpos, image >>

ListFiles == Enter("listfiles", M661, "lf_hdr")

\* listfiles: the header of the list is read and checked.
ListHeader ==
    /\ pc = "lf_hdr"
    /\ CanRead(8)
    /\ LET hdr == NextBytes(8)
       IN  /\ log' = Append(log, Ev(pc, "read", 8, hdr))
           /\ inbuf' = Drop(Len(hdr))
           /\ IF ~Unpacks(hdr)
              THEN Fail(Raise("struct.error", <<hdr>>)) /\ UNCHANGED nfiles
              ELSE IF ~MagicOk(hdr, MagicList)
              THEN Fail(Raise("AssertionError", <<hdr>>)) /\ UNCHANGED nfiles
              ELSE /\ nfiles' = HdrCount(hdr)
                   /\ pc' = IF HdrCount(hdr) = 0 THEN "done" ELSE "lf_ehdr"
                   /\ UNCHANGED err
    /\ UNCHANGED << fsize, op, args, eof, sends, cmd, ret, reply, out,
                    idx, blen, bcount, sent, fpos, image >>

\* listfiles: the header of one entry is read and checked.
EntryHeader ==
    /\ pc = "lf_ehdr"
    /\ CanRead(8)
    /\ LET hdr == NextBytes(8)
       IN  /\ log' = Append(log, Ev(pc, "read", 8, hdr))
           /\ inbuf' = Drop(Len(hdr))
           /\ IF ~Unpacks(hdr)
              THEN Fail(Raise("struct.error", <<hdr>>)) /\ UNCHANGED blen
              ELSE IF ~MagicOk(hdr, MagicEntry)
              THEN Fail(Raise("AssertionError", <<hdr>>)) /\ UNCHANGED blen
              ELSE blen' = HdrCount(hdr) /\ pc' = "lf_name" /\ UNCHANGED err
    /\ UNCHANGED << fsize, op, args, eof, sends, cmd, ret, reply, out,
                    nfiles, idx, bcount, sent, fpos, image >>

\* listfiles: the name of one entry is read and printed.
EntryName ==
    /\ pc = "lf_name"
    /\ CanRead(blen)
    /\ LET fname == NextBytes(blen)
       IN  /\ log' = Append(log, Ev(pc, "read", blen, fname))
           /\ inbuf' = Drop(Len(fname))
           /\ IF ~IsAscii(fname)
              THEN /\ Fail(Raise("UnicodeDecodeError", <<fname>>))
                   /\ UNCHANGED << out, idx >>
              ELSE /\ out' = Append(out, Out("fname", fname))
                   /\ idx' = idx + 1
                   /\ pc' = IF idx + 1 = nfiles THEN "done" ELSE "lf_ehdr"
                   /\ UNCHANGED err
    /\ UNCHANGED << fsize, op, args, eof, sends, cmd, ret, reply,
                    nfiles, blen, bcount, sent, fpos, image >>

GetImage ==
    /\ pc = "main"
    /\ op = "getimage"
    /\ Call(M662(args.image), "gi_hdr")
    /\ UNCHANGED << fsize, op, args, inbuf, eof, sends, log, reply, out, err,
                    nfiles, idx, blen, bcount, sent, fpos, image >>

\* getimage: the header of the image is read and checked.
ImageHeader ==
    /\ pc = "gi_hdr"
    /\ CanRead(8)
    /\ LET hdr == NextBytes(8)
       IN  /\ log' = Append(log, Ev(pc, "read", 8, hdr))
           /\ inbuf' = Drop(Len(hdr))
           /\ IF ~Unpacks(hdr)
              THEN Fail(Raise("struct.error", <<hdr>>)) /\ UNCHANGED blen
              ELSE IF ~MagicOk(hdr, MagicImage)
              THEN Fail(Raise("AssertionError", <<hdr>>)) /\ UNCHANGED blen
              ELSE blen' = HdrCount(hdr) /\ pc' = "gi_data" /\ UNCHANGED err
    /\ UNCHANGED << fsize, op, args, eof, sends, cmd, ret, reply, out,
                    nfiles, idx, bcount, sent, fpos, image >>

\* getimage: the image is read, written to the temporary file and shown.
ImageData ==
    /\ pc = "gi_data"
    /\ CanRead(blen)
    /\ LET data == NextBytes(blen)
       IN  /\ log' = Append(log, Ev(pc, "read", blen, data))
           /\ inbuf' = Drop(Len(data))
           /\ image' = Append(image, data)
    /\ pc' = "done"
    /\ UNCHANGED << fsize, op, args, eof, sends, cmd, ret, reply, out, err,
                    nfiles, idx, blen, bcount, sent, fpos >>

(* -------------------------------- send -------------------------------- *)

\* SendOpen with upload-open written and its reply left unread.
SendOpen_NoWait ==
    /\ pc = "main"
    /\ op = "send"
    /\ LET fname == Basename(args.file)
       IN  IF ~NameOk(fname)
           THEN /\ Fail(Raise("AssertionError", <<fname>>))
                /\ UNCHANGED log
           ELSE /\ log' = log \o
                     << Ev("sendcmd", "write", Len(M28(args.flen, fname)),
                           M28(args.flen, fname)),
                        Ev("sendcmd", "flush", 0, <<>>) >>
                /\ pc' = "send_reply"
                /\ UNCHANGED err
    /\ fpos' = 0
    /\ UNCHANGED << fsize, op, args, inbuf, eof, sends, cmd, ret, reply, out,
                    nfiles, idx, blen, bcount, sent, image >>

\* send, up to the upload-open command: the basename is checked, the
\* length of the file is found and the file is rewound.
SendOpen ==
    /\ pc = "main"
    /\ op = "send"
    /\ LET fname == Basename(args.file)
       IN  IF ~NameOk(fname)
           THEN /\ Fail(Raise("AssertionError", <<fname>>))
                /\ UNCHANGED << cmd, ret >>
           ELSE /\ Call(M28(args.flen, fname), "send_reply")
                /\ UNCHANGED err
    /\ fpos' = 0
    /\ UNCHANGED << fsize, op, args, inbuf, eof, sends, log, reply, out,
                    nfiles, idx, blen, bcount, sent, image >>

\* send: the reply to upload-open is printed and the counters are set.
SendReply ==
    /\ pc = "send_reply"
    /\ out' = out \o Printed(reply)
    /\ bcount' = 0
    /\ sent' = 0
    /\ pc' = "send_loop"
    /\ UNCHANGED << fsize, op, args, inbuf, eof, sends, log, cmd, ret, reply, err,
                    nfiles, idx, blen, fpos, image >>

\* What one turn of the loop adds to sent.
SentAfter(s, data) == s + BLOCKSIZE

\* send: one turn of the while loop: the progress line on every tenth
\* turn, one read of the file, and the chunk written and flushed, or the
\* break at the end of the file.
SendChunk ==
    /\ pc = "send_loop"
    /\ LET show == bcount % PROGRESSEVERY = 0
           data == FileRead(fsize, fpos, BLOCKSIZE)
       IN  IF show /\ args.flen = 0
           THEN /\ Fail(Raise("ZeroDivisionError", <<>>))
                /\ UNCHANGED << out, log, sent, bcount, fpos >>
           ELSE /\ out' = IF show
                          THEN Append(out, Out("progress", <<Percent10(sent, args.flen)>>))
                          ELSE out
                /\ IF Len(data) = 0
                   THEN /\ pc' = "send_fin"
                        /\ UNCHANGED << log, sent, bcount, fpos >>
                   ELSE /\ log' = log \o << Ev(pc, "write", Len(data), data),
                                            Ev(pc, "flush", 0, <<>>) >>
                        /\ sent' = SentAfter(sent, data)
                        /\ bcount' = bcount + 1
                        /\ fpos' = fpos + Len(data)
                        /\ UNCHANGED pc
                /\ UNCHANGED err
    /\ UNCHANGED << fsize, op, args, inbuf, eof, sends, cmd, ret, reply,
                    nfiles, idx, blen, image >>

\* Boundary without the delay.
Boundary_NoDelay == << Ev(pc, "flush", 0, <<>>), Ev(pc, "flush", 0, <<>>) >>

\* What send does between the loop and the upload-close command.
Boundary ==
    << Ev(pc, "flush", 0, <<>>), Ev(pc, "sleep", 0, <<>>),
       Ev(pc, "flush", 0, <<>>) >>

\* send: after the loop, the flushes and the delay, then upload-close.
SendFinish ==
    /\ pc = "send_fin"
    /\ log' = log \o Boundary
    /\ out' = Append(out, Out("text", TxtFinished))
    /\ Call(M29, "send_closed")
    /\ UNCHANGED << fsize, op, args, inbuf, eof, sends, reply, err,
                    nfiles, idx, blen, bcount, sent, fpos, image >>

\* SendClosed with the local path, not its basename, given to doprintfile.
SendClosed_FullPath ==
    /\ pc = "send_closed"
    /\ out' = out \o Printed(reply)
    /\ IF args.print
       THEN DoPrintFile(args.file, "done")
       ELSE pc' = "done" /\ UNCHANGED << cmd, ret >>
    /\ UNCHANGED << fsize, op, args, inbuf, eof, sends, log, reply, err,
                    nfiles, idx, blen, bcount, sent, fpos, image >>

\* send: the reply to upload-close is printed; with --print, doprintfile.
SendClosed ==
    /\ pc = "send_closed"
    /\ out' = out \o Printed(reply)
    /\ IF args.print
       THEN DoPrintFile(Basename(args.file), "done")
       ELSE pc' = "done" /\ UNCHANGED << cmd, ret >>
    /\ UNCHANGED << fsize, op, args, inbuf, eof, sends, log, reply, err,
                    nfiles, idx, blen, bcount, sent, fpos, image >>

(* ------------------------------ the whole ----------------------------- *)

\* The sizes a file of n bytes has after another process has cut its last
\* byte or appended one.
Resizes(n) == {m \in {n - 1, n + 1} : m >= 0}

\* Another process changes the file after send has measured it and before
\* the loop has read it to its end.
FileResized ==
    /\ op = "send"
    /\ pc \in {"send_reply", "send_loop"}
    /\ fsize = args.flen
    /\ fsize' \in Resizes(args.flen)
    /\ UNCHANGED << pc, op, args, inbuf, eof, sends, log, cmd, ret, reply, out,
                    err, nfiles, idx, blen, bcount, sent, fpos, image >>

Next ==
    \/ Status
    \/ Progress
    \/ Pause
    \/ Resume
    \/ PrintFile
    \/ ShowReply
    \/ ListFiles
    \/ ListHeader
    \/ EntryHeader
    \/ EntryName
    \/ GetImage
    \/ ImageHeader
    \/ ImageData
    \/ SendOpen
    \/ SendReply
    \/ SendChunk
    \/ SendFinish
    \/ SendClosed
    \/ SendcmdWrite
    \/ SendcmdAck
    \/ SendcmdLine
    \/ PeerSend
    \/ PeerClose

Spec == Init /\ [][Next]_vars

\* The program beside a process that changes the file it uploads.
NextResized == Next \/ FileResized

SpecResized == Init /\ [][NextResized]_vars


(* ------------------------ reading the history ------------------------- *)

\* The indices of the log at which sendcmd wrote a command.
CmdWrites == {i \in 1..Len(log) : log[i].at = "sendcmd" /\ log[i].ev = "write"}

\* The lines sendcmd has read in its latest call, in order.
ExchangeLines ==
    IF CmdWrites = {} THEN <<>>
    ELSE LET last == CHOOSE i \in CmdWrites : \A j \in CmdWrites : j <= i
             rl == SelectSeq(SubSeq(log, last + 1, Len(log)),
                             LAMBDA e : e.ev = "readline")
         IN  [i \in 1..Len(rl) |-> rl[i].data]

\* sendcmd has just returned its list to the caller.
AtReturn == pc = ret

\* t is l without its leading and trailing whitespace.
IsTrimOf(t, l) ==
    \E a \in 0..Len(l) :
        /\ a + Len(t) <= Len(l)
        /\ \A i \in 1..Len(t) : l[a + i] = t[i]
        /\ \A i \in 1..Len(l) : (i <= a \/ i > a + Len(t)) => IsSpace(l[i])
        /\ t # <<>> => ~IsSpace(t[1]) /\ ~IsSpace(t[Len(t)])

\* t is l without its trailing whitespace (the line terminator included).
IsRTrimOf(t, l) ==
    /\ Len(t) <= Len(l)
    /\ \A i \in 1..Len(t) : l[i] = t[i]
    /\ \A i \in (Len(t) + 1)..Len(l) : IsSpace(l[i])
    /\ t # <<>> => ~IsSpace(t[Len(t)])

\* l is `CMD <token> Received.` and a line end, nothing else.
IsStrictAck(l) ==
    \E e \in 5..Len(l) :
        /\ StartsWith(l, TxtCMD)
        /\ \A i \in 5..e : ~IsSpace(l[i])
        /\ HasAt(l, e + 1, TxtReceived \o Ascii(<<".">>))
        /\ SubSeq(l, e + Len(TxtReceived) + 2, Len(l)) \in {CRLF, <<LF>>}

\* Every acknowledgement read so far was a strict one.
StrictAcks ==
    \A i \in 1..Len(log) : log[i].at = "sc_ack" => IsStrictAck(log[i].data)

(* ------------------------------- claims ------------------------------- *)

\* C1, as stated: when sendcmd returns, the lines it read were the
\* acknowledgement, content lines c1..ck and a last line that is `ok` once
\* its line end is removed, and the list returned is exactly c1..ck, each
\* as received but for its line end.  The code refutes it: a line " ok" ends
\* the loop, and a line " b" is returned as "b".
C1_AsStated ==
    (AtReturn /\ IsStrictAck(ExchangeLines[1])) =>
        LET ls == ExchangeLines
            k == Len(ls) - 2
        IN  /\ k >= 0
            /\ Len(reply) = k
            /\ IsRTrimOf(TxtOk, ls[k + 2])
            /\ \A i \in 1..k : IsRTrimOf(reply[i], ls[i + 1])

\* C1, amended: when sendcmd returns, the lines it read were the
\* acknowledgement, k content lines and a terminator, where the terminator
\* is the first line that is `ok` once leading and trailing whitespace is
\* removed; the list returned has exactly the k content lines, in the order
\* received, each with its leading and trailing whitespace removed, and
\* neither the acknowledgement nor the terminator is in it.
C1_ReplyIsContentLines ==
    AtReturn =>
        LET ls == ExchangeLines
            k == Len(ls) - 2
        IN  /\ k >= 0
            /\ Len(reply) = k
            /\ cmdackre(ls[1])
            /\ IsTrimOf(TxtOk, ls[k + 2])
            /\ \A i \in 1..k : IsTrimOf(reply[i], ls[i + 1]) /\ reply[i] # TxtOk

\* C1's case: a status reply of two different content lines has been
\* returned.
C1_Witness ==
    /\ op = "status"
    /\ pc = "show"
    /\ IsStrictAck(ExchangeLines[1])
    /\ Len(reply) = 2
    /\ reply[1] # reply[2]

\* C2, as stated: a first reply line that is not `CMD <token> Received.`
\* followed by the line end only makes sendcmd fail without another read.
\* The code refutes it: cmdackre is matched at the start of the line only and
\* its last `.` stands for any character, so "CMD M119 Received\r\n" and
\* "CMD M119 Received. no\r\n" are accepted.
C2_AsStated ==
    LET ls == ExchangeLines
    IN  (Len(ls) >= 1 /\ ~IsStrictAck(ls[1])) => (pc = "fail" /\ Len(ls) = 1)

\* C3, as stated: once the stream has ended after a valid acknowledgement
\* and before `ok` (a readline of the loop returned nothing), sendcmd has
\* failed.  The code refutes it: the empty line is appended to the reply and
\* the loop reads on.
C3_AsStated ==
    LET ls == ExchangeLines
    IN  (\E i \in 2..Len(ls) : IsStrictAck(ls[1]) /\ ls[i] = <<>>) => pc = "fail"


\* The tag a header read at position at has to carry.
ExpectedMagic(at) ==
    CASE at = "lf_hdr" -> MagicList
      [] at = "lf_ehdr" -> MagicEntry
      [] at = "gi_hdr" -> MagicImage

\* The indices of the log at which a whole block header was read whose tag
\* is not the expected one.
BadHeaders ==
    {i \in 1..Len(log) :
        /\ log[i].at \in {"lf_hdr", "lf_ehdr", "gi_hdr"}
        /\ Len(log[i].data) = 8
        /\ HdrMagic(log[i].data) # ExpectedMagic(log[i].at)}

\* The number of reads made at position at.
ReadsAt(at) == Cardinality({i \in 1..Len(log) : log[i].at = at})

\* The filenames listfiles has printed.
Filenames == SelectSeq(out, LAMBDA o : o.k = "fname")

\* C4: in listfiles and getimage a block header whose tag differs from the
\* expected one (file-list tag, entry tag, image tag) ends the operation
\* with an AssertionError at once: the read of that header is the last call
\* on the connection, so the block's payload is never read, and every
\* filename printed and every image saved comes from an earlier payload read.
C4_BadMagicFailsFast ==
    /\ \A i \in BadHeaders :
        /\ i = Len(log)
        /\ pc = "fail"
        /\ err.type = "AssertionError"
    /\ Len(Filenames) <= ReadsAt("lf_name")
    /\ Len(image) <= ReadsAt("gi_data")

\* C4's case: after one entry was listed, the next entry's header carries a
\* wrong tag and listfiles has failed.
C4_Witness ==
    /\ op = "listfiles"
    /\ BadHeaders # {}
    /\ log[Len(log)].at = "lf_ehdr"
    /\ Len(Filenames) = 1
    /\ pc = "fail"

\* The entries of the file list whose payload arrived whole.
WholeEntries ==
    Cardinality({i \in 1..Len(log) :
        log[i].at = "lf_name" /\ Len(log[i].data) = log[i].n})

\* C5, as stated: when the stream has closed and listfiles has ended with
\* fewer whole entries than the header declared, it has failed and printed
\* no filename.  The code refutes it: filenames are printed as they are
\* read, so the ones ahead of the failure stay printed, and a last payload
\* cut short is printed as a filename with no error at all.
C5_AsStated ==
    ( /\ op = "listfiles"
      /\ StrictAcks
      /\ eof
      /\ pc \in {"done", "fail"}
      /\ WholeEntries < nfiles ) => (pc = "fail" /\ Filenames = <<>>)

\* C6: send with a basename of at most 36 bytes passes the check and goes
\* on to upload-open, the first bytes written; with a basename of 37 bytes
\* or more it fails with an AssertionError and nothing was written.
C6_NameLimit ==
    (op = "send" /\ pc # "main") =>
        LET fname == Basename(args.file)
        IN  IF Len(fname) <= 36
            THEN /\ err.type # "AssertionError"
                 /\ \/ pc = "sendcmd" /\ log = <<>> /\ cmd = M28(args.flen, fname)
                    \/ /\ log # <<>>
                       /\ log[1].ev = "write"
                       /\ log[1].data = M28(args.flen, fname)
            ELSE /\ pc = "fail"
                 /\ err.type = "AssertionError"
                 /\ log = <<>>

\* C6's case: a file whose basename has exactly 36 bytes, given with a
\* directory, and upload-open has been written.
C6_Witness ==
    /\ op = "send"
    /\ Len(args.file) > 36
    /\ Len(Basename(args.file)) = 36
    /\ log # <<>>
    /\ log[1].ev = "write"


\* The chunks of the file send has written, in order.
DataWrites == SelectSeq(log, LAMBDA e : e.at = "send_loop" /\ e.ev = "write")

\* The number of bytes in chunks dw.
DataTotal(dw) ==
    IF dw = <<>> THEN 0 ELSE (Len(dw) - 1) * BLOCKSIZE + Len(dw[Len(dw)].data)

\* The indices of the log at which upload-close was written.
CloseWrites == {i \in CmdWrites : log[i].data = M29}

\* Upload-close is the command sendcmd wrote last, and nothing was read
\* since.
CloseJustWritten ==
    /\ Len(log) >= 2
    /\ log[Len(log) - 1].ev = "write"
    /\ log[Len(log) - 1].data = M29

\* C7: the chunks send writes are the bytes of the file in order: every
\* chunk but the last has BLOCKSIZE bytes, the last has between 1 and
\* BLOCKSIZE, never more than the file's length is written, and when
\* upload-close is written the chunks add up to the file's length and byte
\* i of chunk j is byte (j-1)*BLOCKSIZE+i of the file.
C7_DataIsTheFile ==
    op = "send" =>
        LET dw == DataWrites
        IN  /\ \A j \in 1..Len(dw) :
                /\ Len(dw[j].data) \in 1..BLOCKSIZE
                /\ j < Len(dw) => Len(dw[j].data) = BLOCKSIZE
            /\ DataTotal(dw) <= args.flen
            /\ CloseWrites # {} => DataTotal(dw) = args.flen
            /\ CloseJustWritten =>
                \A j \in 1..Len(dw) :
                    LET d == dw[j].data
                    IN  d = [i \in 1..Len(d) |-> FileByte((j - 1) * BLOCKSIZE + i)]

\* C7's case: a file of BLOCKSIZE + 1 bytes has gone out as a full chunk
\* and a chunk of one byte, and upload-close has been written.
C7_Witness ==
    /\ op = "send"
    /\ args.flen = BLOCKSIZE + 1
    /\ CloseWrites # {}
    /\ Len(DataWrites) = 2
    /\ Len(DataWrites[2].data) = 1

\* C8: upload-close is a write of its own, the write before it is the last
\* chunk of the file, between the two there is a flush and after that
\* flush the delay, and all of the file has been written by then.
C8_CloseInOwnPacket ==
    \A c \in CloseWrites :
        LET before == {j \in 1..(c - 1) : log[j].ev = "write"}
            last == CHOOSE j \in before : \A k \in before : k <= j
        IN  /\ before # {}
            /\ log[last].at = "send_loop"
            /\ \E f \in (last + 1)..(c - 1) : \E d \in (f + 1)..(c - 1) :
                log[f].ev = "flush" /\ log[d].ev = "sleep"
            /\ DataTotal(DataWrites) = args.flen

\* C8's case: upload-close has been written after the two chunks of a file
\* of BLOCKSIZE + 1 bytes.
C8_Witness ==
    /\ CloseWrites # {}
    /\ Len(DataWrites) = 2
    /\ pc = "sc_ack"

\* The command doprintfile has to send for path p.
PrintCommandFor(p) ==
    Ascii(<<"~", "M", "2", "3", " ", "0", ":">>)
        \o (IF p # <<>> /\ p[1] = Slash
            THEN p
            ELSE Ascii(<<"/", "u", "s", "e", "r", "/">>) \o p)
        \o CRLF

\* C9: doprintfile sends `~M23 0:<q>`, q the path itself when it starts
\* with `/` and `/user/` + path otherwise; print writes that command and no
\* other, and what it shows are the reply lines of that one exchange; send
\* with --print hands it the basename.
C9_PrintCommand ==
    /\ (op = "print" /\ pc # "main") =>
        /\ cmd = PrintCommandFor(args.file)
        /\ \A i \in 1..Len(log) :
            log[i].ev = "write" => (i = 1 /\ log[i].data = cmd)
        /\ pc \in {"show", "done"} =>
            (Cardinality(CmdWrites) = 1 /\ Len(reply) = Len(ExchangeLines) - 2)
        /\ pc = "done" => out = Printed(reply)
    /\ (op = "send" /\ ret = "done") =>
        cmd = PrintCommandFor(Basename(args.file))

\* C9's case: print of a path that starts with `/` has shown a reply.
C9_Witness ==
    /\ op = "print"
    /\ args.file # <<>>
    /\ args.file[1] = Slash
    /\ Len(args.file) > 1
    /\ pc = "done"
    /\ Len(out) >= 1

\* C10, as stated: when getimage has read an image header of length n and
\* ended, exactly n bytes were read and saved as the image, by the last
\* read on the connection.  The code refutes it: s.read(imglen) returns what
\* arrived when the stream ends early, and that is saved as the image.
C10_AsStated ==
    (op = "getimage" /\ StrictAcks /\ pc = "done") =>
        /\ Len(image) = 1
        /\ Len(image[1]) = blen
        /\ log[Len(log)].at = "gi_data"
        /\ log[Len(log)].data = image[1]

\* C11, as stated: the loop of sendcmd ends at a line that is `ok` once its
\* trailing whitespace is removed and at no other, and every line returned
\* is the line received without its trailing whitespace.  The code refutes
\* it: " ok" ends the loop and " b" is returned as "b".
C11_AsStated ==
    ((pc = "sc_loop" \/ AtReturn) /\ StrictAcks) =>
        LET ls == ExchangeLines
        IN  /\ \A i \in 2..Len(ls) :
                IsRTrimOf(TxtOk, ls[i]) <=> (i = Len(ls) /\ AtReturn)
            /\ \A i \in 1..Len(reply) : IsRTrimOf(reply[i], ls[i + 1])

\* C11, amended: the loop of sendcmd ends at a line that is `ok` once its
\* leading and trailing whitespace is removed and at no other, and every
\* line collected is the line received without its leading and trailing
\* whitespace: a line with whitespace ahead of `ok` is the terminator, and
\* the leading whitespace of a content line is not kept.
C11_StopsAtStrippedOk ==
    (pc = "sc_loop" \/ AtReturn) =>
        LET ls == ExchangeLines
        IN  /\ Len(ls) >= 1
            /\ Len(reply) = Len(ls) - (IF AtReturn THEN 2 ELSE 1)
            /\ \A i \in 2..Len(ls) :
                IsTrimOf(TxtOk, ls[i]) <=> (i = Len(ls) /\ AtReturn)
            /\ \A i \in 1..Len(reply) : IsTrimOf(reply[i], ls[i + 1])

\* C11's case: a reply whose content line and whose terminator both start
\* with a blank has been returned.
C11_Witness ==
    /\ AtReturn
    /\ Len(reply) = 1
    /\ ExchangeLines[2][1] = 32
    /\ ExchangeLines[3][1] = 32

\* The reads of the first block header of listfiles and of getimage.
FirstHeaderReads ==
    {i \in 1..Len(log) : log[i].at \in {"lf_hdr", "gi_hdr"}}

\* C12, as stated: in listfiles and getimage the first thing read from the
\* printer after the command is written and flushed is the first block
\* header, not the text reply of the command.  The code refutes it: both
\* functions call sendcmd, which reads the acknowledgement first.
C12_AsStated ==
    (op \in {"listfiles", "getimage"} /\ Len(log) >= 3 /\ StrictAcks) =>
        log[3].at \in {"lf_hdr", "gi_hdr"}

\* C12, amended: in listfiles and getimage the first block header is read
\* only after the whole text reply of the command: the command is written
\* and flushed, the acknowledgement is read and matches, lines are read up
\* to the terminator, and the header read comes straight after the
\* terminator.
C12_HeaderAfterTextReply ==
    \A i \in FirstHeaderReads :
        /\ i >= 5
        /\ log[1].at = "sendcmd" /\ log[1].ev = "write"
        /\ log[1].data = (IF op = "listfiles" THEN M661 ELSE M662(args.image))
        /\ log[2].at = "sendcmd" /\ log[2].ev = "flush"
        /\ log[3].at = "sc_ack" /\ cmdackre(log[3].data)
        /\ \A j \in 4..(i - 1) :
            /\ log[j].at = "sc_loop"
            /\ IsTrimOf(TxtOk, log[j].data) <=> j = i - 1

\* C12's case: listfiles has read a whole first header after the text reply.
C12_Witness ==
    /\ op = "listfiles"
    /\ pc \in {"lf_ehdr", "done"}
    /\ FirstHeaderReads # {}
    /\ StrictAcks

\* The payload reads that returned fewer bytes than the header declared.
ShortPayloads ==
    {i \in 1..Len(log) :
        log[i].at \in {"lf_name", "gi_data"} /\ Len(log[i].data) < log[i].n}

\* C13, as stated: once a payload read of listfiles or getimage has come
\* back short because the stream closed, the operation has failed with an
\* error, and the short payload is neither printed as a filename nor saved
\* as the image.  The code refutes it: s.read(n) returns what arrived and
\* the result is printed or saved with no check of its length.
C13_AsStated ==
    (StrictAcks /\ ShortPayloads # {}) =>
        /\ pc = "fail"
        /\ \A i \in ShortPayloads :
            /\ \A k \in 1..Len(Filenames) : Filenames[k].v # log[i].data
            /\ \A k \in 1..Len(image) : image[k] # log[i].data

\* The progress figures send has printed, in tenths of a percent.
ProgressFigures ==
    LET ps == SelectSeq(out, LAMBDA o : o.k = "progress")
    IN  {ps[i].v[1] : i \in 1..Len(ps)}

\* C14, as stated: at the head of every turn of the loop of send that prints
\* progress, sent is the number of file bytes written so far and is at most
\* the length of the file, and every figure printed lies between 0% and
\* 100%.  The code refutes it: sent grows by BLOCKSIZE for a last chunk that
\* is shorter, so with ten chunks it is past the length of the file when it
\* is read again.
C14_AsStated ==
    op = "send" =>
        /\ (pc = "send_loop" /\ bcount % PROGRESSEVERY = 0) =>
              (sent = DataTotal(DataWrites) /\ sent <= args.flen)
        /\ \A p \in ProgressFigures : p >= 0 /\ p <= 1000

\* C15, as stated: send checks the file against the length it announced in
\* upload-open at the head of every chunk, so it never writes more file
\* bytes than it announced, and it never writes upload-close after a number
\* of file bytes other than the one announced: a file that ends early or
\* goes on longer makes it fail first.  The code refutes it: the loop writes
\* whatever read() returns until read() returns nothing.
C15_AsStated ==
    (op = "send" /\ StrictAcks) =>
        LET total == DataTotal(DataWrites)
        IN  /\ total <= args.flen
            /\ CloseWrites # {} => total = args.flen

\* The indices of the log at which bytes were written to the connection.
Writes == {i \in 1..Len(log) : log[i].ev = "write"}

\* How upload-open and print-file start.
OpenPrefix == Ascii(<<"~", "M", "2", "8", " ">>)

PrintPrefix == Ascii(<<"~", "M", "2", "3", " ">>)

\* The place of a write in the order of send: upload-open 1, a chunk of the
\* file 2, upload-close 3, print-file 4, anything else 0.
Phase(e) ==
    IF e.at = "send_loop" THEN 2
    ELSE IF e.data = M29 THEN 3
    ELSE IF StartsWith(e.data, OpenPrefix) THEN 1
    ELSE IF StartsWith(e.data, PrintPrefix) THEN 4
    ELSE 0

\* Between the write at c and the call at i the acknowledgement of c was
\* read and accepted and a terminator was read after it.
ReplyRead(c, i) ==
    \E a \in (c + 1)..(i - 1) :
        /\ log[a].at = "sc_ack"
        /\ cmdackre(log[a].data)
        /\ \E t \in (a + 1)..(i - 1) :
            log[t].at = "sc_loop" /\ IsTrimOf(TxtOk, log[t].data)

\* C16: send is half-duplex.  Its writes come in the order upload-open, the
\* chunks of the file, upload-close, print-file, with each command written
\* at most once and upload-open first; and the write that follows the write
\* of a command, be it of a command or of file data, comes after the whole
\* text reply (acknowledgement and terminator) of that command, so no write
\* comes while the reply of an earlier command is outstanding.
C16_HalfDuplex ==
    op = "send" =>
        LET W == Writes
            ph == [i \in W |-> Phase(log[i])]
        IN  \A i \in W :
                /\ ph[i] # 0
                /\ ph[i] = 1 <=> i = 1
                /\ \A j \in W :
                    j < i =>
                        /\ ph[j] <= ph[i]
                        /\ ph[i] # 2 => ph[j] < ph[i]
                        /\ (ph[j] # 2 /\ \A k \in W : ~(j < k /\ k < i))
                              => ReplyRead(j, i)

\* C16's case: send with --print has ended after upload-open, two chunks,
\* upload-close and print-file.
C16_Witness ==
    /\ op = "send"
    /\ pc = "done"
    /\ Cardinality(CmdWrites) = 3
    /\ Len(DataWrites) = 2
    /\ StrictAcks

\* The indices of the log at which a print-file command was written.
PrintWrites == {i \in CmdWrites : StartsWith(log[i].data, PrintPrefix)}

\* The device path send names: /user/ and the basename of the local file.
UploadPath == Ascii(<<"/", "u", "s", "e", "r", "/">>) \o Basename(args.file)

\* C17: send writes a print-file command only with --print, only after it
\* wrote upload-close and read that command's acknowledgement and its
\* terminator, and the path in print-file is the path in upload-open,
\* /user/<basename>; send that has ended without an error has written
\* print-file exactly when --print was given.
C17_PrintAfterClose ==
    op = "send" =>
        /\ \A i \in PrintWrites :
            /\ args.print
            /\ \E c \in CloseWrites : c < i /\ ReplyRead(c, i)
            /\ log[i].data = PrintPrefix \o Ascii(<<"0", ":">>) \o UploadPath \o CRLF
            /\ log[1].data = OpenPrefix \o Dec(args.flen)
                                 \o Ascii(<<" ", "0", ":">>) \o UploadPath \o CRLF
        /\ pc = "done" => (PrintWrites # {} <=> args.print)

\* C17's case: send with --print has written print-file and read its reply.
C17_Witness ==
    /\ op = "send"
    /\ args.print
    /\ PrintWrites # {}
    /\ pc = "done"
    /\ Len(args.file) > Len(Basename(args.file))

\* The reads of sendcmd that end the exchange with an exception: a line
\* that is not ASCII, or a first line that is no acknowledgement.
FailedReads ==
    {i \in 1..Len(log) :
        /\ log[i].ev = "readline"
        /\ \/ ~IsAscii(log[i].data)
           \/ log[i].at = "sc_ack" /\ ~cmdackre(log[i].data)}

\* C18: no retry.  The commands written are all different, so none is
\* written a second time; while sendcmd runs and when it has returned or
\* failed, the command it was called with was written exactly once; and a
\* failed read of a reply is the last call on the connection, after which
\* the program has stopped: no data, no upload-close and no print-file
\* follow it.
C18_NoRetry ==
    /\ \A i \in CmdWrites : \A j \in CmdWrites : log[i].data = log[j].data => i = j
    /\ (pc \in {"sc_ack", "sc_loop"} \/ AtReturn) =>
          Cardinality({i \in CmdWrites : log[i].data = cmd}) = 1
    /\ \A i \in FailedReads : i = Len(log) /\ pc = "fail"

\* C18's case: send has failed on a reply to upload-open that is no
\* acknowledgement.
C18_Witness ==
    /\ op = "send"
    /\ pc = "fail"
    /\ err.type = "Exception"
    /\ Len(log) = 3
    /\ FailedReads = {3}

\* The exchange of upload-open has succeeded: its acknowledgement was read
\* and accepted and its terminator was read.
Opened ==
    /\ Len(log) >= 1
    /\ Phase(log[1]) = 1
    /\ ReplyRead(1, Len(log) + 1)

\* Every line the printer was asked for so far came whole and in ASCII.
WellFormedReplies ==
    \A i \in 1..Len(log) :
        log[i].ev = "readline" =>
            /\ IsAscii(log[i].data)
            /\ log[i].data # <<>>
            /\ log[i].data[Len(log[i].data)] = LF

\* C19, as stated, in the form a finite run can refute: send never ends,
\* with or without an error, after a successful upload-open and well-formed
\* replies without having written upload-close.  The code refutes it for
\* the empty file: the first progress line divides by the length 0 and the
\* ZeroDivisionError ends the program before upload-close.
C19_AsStated ==
    ( /\ op = "send"
      /\ pc \in {"done", "fail"}
      /\ Opened
      /\ StrictAcks
      /\ WellFormedReplies ) => CloseWrites # {}

====
